---- MODULE Spec2Model ----
(***************************************************************************)
(* The backend process supervisor of the Electron shell: startServer,      *)
(* createWindow and the application events of electron/main.cjs, and the   *)
(* GracefulKiller of electron/utils.cjs, and the bridge that                *)
(* electron/preload.cjs exposes to the page of a window.                   *)
(*                                                                         *)
(* Node runs one callback at a time and drains the promise (microtask)     *)
(* queue after each callback, so one action is one callback together with  *)
(* the promise continuations it triggers.                                  *)
(***************************************************************************)
EXTENDS Integers, Sequences, FiniteSets, TLC

\* ------------------------------------------------------------------ bounds
\* Calls the page of a window makes to window.api and to the disposers it got.
MaxUi == 3

\* Arguments in the configuration given to startServer.
MaxArgs == 2
MaxChunks == 3

\* Messages of the main process to the window whose bridge is followed.
MaxIpc == 3

\* Events of the environment in one behaviour: output chunks, exits the child
\* decides on, failed spawns, and what the user does (activate, quit, close a
\* window). Timers and the exits that answer a signal are not counted.
MaxEnv == 4

\* ------------------------------------------------------- JavaScript values
\* `let serverPort;` is undefined, the close handler stores null; a ChildProcess
\* closes with code null when it was ended by a signal and with a negative
\* errno when the spawn failed.
Null == -1
Undefined == -2
SpawnErrno == -3

Truthy(v) == v > 0

\* ------------------------------------------------------------------- text
\* Text is a sequence of one-character strings.
Upper == <<"A", "B", "C", "D", "E", "F", "G", "H", "I", "J", "K", "L", "M",
           "N", "O", "P", "Q", "R", "S", "T", "U", "V", "W", "X", "Y", "Z">>
Lower == <<"a", "b", "c", "d", "e", "f", "g", "h", "i", "j", "k", "l", "m",
           "n", "o", "p", "q", "r", "s", "t", "u", "v", "w", "x", "y", "z">>

ToLower(c) ==
    IF \E i \in 1..Len(Upper) : Upper[i] = c
    THEN Lower[CHOOSE i \in 1..Len(Upper) : Upper[i] = c]
    ELSE c

Digits == <<"0", "1", "2", "3", "4", "5", "6", "7", "8", "9">>

IsDigit(c) == \E i \in 1..10 : Digits[i] = c

DigitVal(c) == (CHOOSE i \in 1..10 : Digits[i] = c) - 1

RECURSIVE ParseInt(_)
ParseInt(ds) ==
    IF ds = <<>> THEN 0
    ELSE 10 * ParseInt(SubSeq(ds, 1, Len(ds) - 1)) + DigitVal(ds[Len(ds)])

\* buf has the literal lit at position i, ignoring case (the /i flag).
HasAt(buf, i, lit) ==
    /\ i + Len(lit) - 1 <= Len(buf)
    /\ \A k \in 1..Len(lit) : ToLower(buf[i + k - 1]) = lit[k]

LitHttp == <<"h", "t", "t", "p">>
LitS == <<"s">>
LitSep == <<":", "/", "/">>
LitLocalhost == <<"l", "o", "c", "a", "l", "h", "o", "s", "t">>
LitLoopback == <<"1", "2", "7", ".", "0", ".", "0", ".", "1">>
LitColon == <<":">>

\* The longest run of digits of buf that starts at position i (\d+ is greedy).
RECURSIVE DigitRun(_, _)
DigitRun(buf, i) ==
    IF i <= Len(buf) /\ IsDigit(buf[i])
    THEN <<buf[i]>> \o DigitRun(buf, i + 1)
    ELSE <<>>

\* portRegex /https?:\/\/(?:localhost|127\.0\.0\.1):(\d+)/i tried at position i:
\* the captured digits, or <<>> when it does not match there.
MatchAt(buf, i) ==
    IF ~HasAt(buf, i, LitHttp) THEN <<>>
    ELSE LET a == i + 4
             b == IF HasAt(buf, a, LitS) THEN a + 1 ELSE a
             c == b + 3
             d == c + 9
         IN  IF /\ HasAt(buf, b, LitSep)
                /\ (HasAt(buf, c, LitLocalhost) \/ HasAt(buf, c, LitLoopback))
                /\ HasAt(buf, d, LitColon)
             THEN DigitRun(buf, d + 1)
             ELSE <<>>

\* buffer.match(portRegex): the capture of the leftmost match, <<>> for no match.
PortMatch(buf) ==
    LET hits == {i \in 1..Len(buf) : MatchAt(buf, i) # <<>>}
    IN  IF hits = {} THEN <<>>
        ELSE MatchAt(buf, CHOOSE i \in hits : \A j \in hits : i <= j)

\* The output chunks a child may write.
ChunkUrl == <<"h", "t", "t", "p", ":", "/", "/", "l", "o", "c", "a", "l", "h", "o", "s", "t", ":">>
ChunkFull == ChunkUrl \o <<"3">>
ChunkZero == <<"0", "/">>
Chunks == {ChunkFull, ChunkUrl, ChunkZero}

\* ----------------------------------------------------------- configuration
defaultServerConfig ==
    [execPath |-> <<"b", "a", "c", "k", "e", "n", "d">>,
     nt_command |-> "backend.exe",
     posix_command |-> "./backend",
     args |-> <<>>,
     timeout |-> 10000]

\* process.resourcesPath of a packaged application
ResourcesPath == <<"/", "r">>

\* path.dirname
RECURSIVE Dirname(_)
Dirname(path) ==
    IF path = <<>> THEN <<>>
    ELSE IF path[Len(path)] = "/" THEN SubSeq(path, 1, Len(path) - 1)
    ELSE Dirname(SubSeq(path, 1, Len(path) - 1))

\* path.join(base, name) for a name without separators: ".." names the parent.
Join(base, name) ==
    IF name = <<".", ".">> THEN Dirname(base) ELSE base \o <<"/">> \o name

BasePath(cfg) == Join(ResourcesPath, cfg.execPath)

IsSep(c) == c = "/" \/ c = "\\"

\* /^[^/\\]*\.[^/\\]+$/.test(arg)
IsBareFile(arg) ==
    /\ \A i \in 1..Len(arg) : ~IsSep(arg[i])
    /\ \E i \in 1..(Len(arg) - 1) : arg[i] = "."

FullArgs(cfg) ==
    [i \in 1..Len(cfg.args) |->
        IF IsBareFile(cfg.args[i]) THEN Join(BasePath(cfg), cfg.args[i]) ELSE cfg.args[i]]

ScriptExts == {<<".", "j", "s">>, <<".", "t", "s">>, <<".", "p", "y">>, <<".", "r", "b">>,
               <<".", "p", "h", "p">>, <<".", "e", "x", "e">>}

\* /\.(js|ts|py|rb|php|exe)$/i.test(arg)
HasScriptExt(arg) ==
    \E e \in ScriptExts : Len(arg) >= Len(e) /\ HasAt(arg, Len(arg) - Len(e) + 1, e)

\* fullArgs.find(...): the first argument with a script extension, <<>> for none.
MainScript(fullArgs) ==
    LET hits == {i \in 1..Len(fullArgs) : HasScriptExt(fullArgs[i])}
    IN  IF hits = {} THEN <<>>
        ELSE fullArgs[CHOOSE i \in hits : \A j \in hits : i <= j]

Platforms == {"darwin", "win32"}

\* createWindow calls startServer() without a configuration.
DefaultInput ==
    [args |-> defaultServerConfig.args, disk |-> {}, text |-> <<>>, rest |-> <<>>]

Command(cfg, plat) == IF plat = "win32" THEN cfg.nt_command ELSE cfg.posix_command

\* ------------------------------------------------------------ preload.cjs
validInvokeChannels == {"get-api-port"}
validReceiveChannels == {"backend-log", "backend-port"}

\* What a call of window.api gave back to the page.
NoResult == [kind |-> "none", value |-> 0]
UndefinedResult == [kind |-> "undefined", value |-> 0]

\* The renderer once preload.cjs has run: its own backend-port listener
\* (preload.cjs 39-43) is subscription 0. subs and received are, by
\* subscription of receive, its channel and listener with the number of
\* messages handled before it, and the payloads passed to its listener.
RendererInit ==
    [listeners |-> <<[channel |-> "backend-port", sub |-> 0, listener |-> "preload"]>>,
     nsubs |-> 0,
     subs |-> <<>>,
     received |-> <<>>,
     warnings |-> <<>>,
     invoked |-> <<>>,
     result |-> NoResult,
     apiReady |-> 0,
     delivered |-> 0]

\* main.cjs 175-178: the get-api-port handler
GetApiPortHandler(S) == S.serverPort

\* ipcRenderer.invoke(channel): the answer of the handler in the main process,
\* an error when the channel has none
IpcRendererInvoke(R, S, channel) ==
    [R EXCEPT !.invoked = Append(@, channel),
              !.result = IF channel \in S.handlers
                         THEN [kind |-> "value", value |-> GetApiPortHandler(S)]
                         ELSE [kind |-> "error", value |-> 0]]

\* preload.cjs 10
GetApiPort(R, S) == IpcRendererInvoke(R, S, "get-api-port")

\* A receive that registers on any channel
ReceiveAnyChannel(R, channel, listener) ==
    [R EXCEPT !.nsubs = @ + 1,
              !.listeners = Append(@, [channel |-> channel, sub |-> R.nsubs + 1,
                                       listener |-> listener]),
              !.subs = Append(@, [channel |-> channel, listener |-> listener,
                                           since |-> R.delivered]),
              !.received = Append(@, <<>>),
              !.result = [kind |-> "disposer", value |-> R.nsubs + 1]]

\* preload.cjs 17-29, receive(channel, listener): each call wraps listener in
\* a subscription function of its own and returns the disposer of that one
Receive(R, channel, listener) ==
    IF channel \in validReceiveChannels
    THEN [R EXCEPT !.nsubs = @ + 1,
                   !.listeners = Append(@, [channel |-> channel, sub |-> R.nsubs + 1,
                                            listener |-> listener]),
                   !.subs = Append(@, [channel |-> channel, listener |-> listener,
                                           since |-> R.delivered]),
                   !.received = Append(@, <<>>),
                   !.result = [kind |-> "disposer", value |-> R.nsubs + 1]]
    ELSE [R EXCEPT !.warnings = Append(@, [op |-> "receive", channel |-> channel]),
                   !.result = UndefinedResult]

\* preload.cjs 30-35, invoke(channel)
Invoke(R, S, channel) ==
    IF channel \in validInvokeChannels
    THEN IpcRendererInvoke(R, S, channel)
    ELSE [R EXCEPT !.warnings = Append(@, [op |-> "invoke", channel |-> channel]),
                   !.result = UndefinedResult]

\* The position of the last listener of subscription sub on channel, 0 for none.
LastListener(R, channel, sub) ==
    LET hits == {i \in 1..Len(R.listeners) :
                    R.listeners[i].channel = channel /\ R.listeners[i].sub = sub}
    IN  IF hits = {} THEN 0 ELSE CHOOSE i \in hits : \A j \in hits : j <= i

\* A disposer that removes every listener of the channel
RemoveAllListeners(R, channel, sub) ==
    LET keep == {i \in 1..Len(R.listeners) : R.listeners[i].channel # channel}
        F[i \in 0..Len(R.listeners)] ==
            IF i = 0 THEN <<>>
            ELSE IF i \in keep THEN Append(F[i - 1], R.listeners[i]) ELSE F[i - 1]
    IN  [R EXCEPT !.listeners = F[Len(R.listeners)], !.result = UndefinedResult]

\* preload.cjs 24-26, the disposer of subscription sub on channel:
\* ipcRenderer.removeListener(channel, subscription) removes the most recently
\* added instance of that function, if there is one
RemoveListener(R, channel, sub) ==
    LET at == LastListener(R, channel, sub)
    IN  [R EXCEPT !.listeners =
                      IF at = 0 THEN @
                      ELSE SubSeq(@, 1, at - 1) \o SubSeq(@, at + 1, Len(@)),
                  !.result = UndefinedResult]

\* The listeners of ipcRenderer on channel, in the order they were added.
ListenersOn(R, channel) ==
    {i \in 1..Len(R.listeners) : R.listeners[i].channel = channel}

\* An emit that hands the newest message to a listener ahead of the older ones
EmitNewestFirst(R, msg, idx) ==
    LET on == {i \in 1..Len(R.listeners) : R.listeners[i].channel = msg.channel}
        subs == {R.listeners[i].sub : i \in on}
    IN  [R EXCEPT !.delivered = idx,
                  !.apiReady = IF 0 \in subs THEN @ + 1 ELSE @,
                  !.received = [n \in 1..Len(@) |->
                                   IF n \in subs
                                   THEN <<[idx |-> idx, payload |-> msg.payload]>> \o @[n]
                                   ELSE @[n]]]

\* ipcRenderer emits message idx of the main process: every listener of its
\* channel is called with the payload; the subscription of receive passes the
\* payload to its listener (preload.cjs 20), the one of preload.cjs 39-43
\* dispatches api-ready.
Emit(R, msg, idx) ==
    LET on == ListenersOn(R, msg.channel)
        subs == {R.listeners[i].sub : i \in on}
    IN  [R EXCEPT !.delivered = idx,
                  !.apiReady = IF 0 \in subs THEN @ + 1 ELSE @,
                  !.received = [n \in 1..Len(@) |->
                                   IF n \in subs
                                   THEN Append(@[n], [idx |-> idx, payload |-> msg.payload])
                                   ELSE @[n]]]

\* ------------------------------------------------------------------ state
VARIABLES
    procs,          \* the ChildProcess objects spawned so far, by spawn order
    attempts,       \* the closure of each startServer promise executor, by process
    promises,       \* the promises returned by startServer
    serverProcess,  \* main.cjs: let serverProcess (0: undefined)
    serverPort,     \* main.cjs: let serverPort
    serverStarted,  \* main.cjs: let serverStarted
    mainWindow,     \* main.cjs: let mainWindow (0: none)
    windows,        \* BrowserWindow.getAllWindows()
    nwindows,       \* BrowserWindow objects constructed so far
    killer,         \* the GracefulKiller instance and its kill() call: the
                    \* promise (call), the timer, the process it listens to
                    \* (target), the kill('SIGTERM') and kill('SIGKILL') calls
                    \* made, whether the process had ended before the call,
                    \* and whether its exit came with the timer still armed
    app,            \* the Electron application: ready, exit progress
    platform,       \* os.platform()
    nenv,           \* events of the environment so far
    emitted,        \* per attempt, the text its child wrote while the attempt
                    \* was undecided (no port resolved, startup timer not fired)
    ipc,            \* the messages handed to webContents.send, in order
    handlers,       \* the channels with an ipcMain.handle handler
    loading,        \* the windows whose page has not finished loading
    renderer,       \* the renderer process of a window: the listeners of
                    \* ipcRenderer, what preload.cjs returned and logged, and
                    \* how many messages of ipc it has handled
    nui,            \* calls the page has made to window.api
    input           \* the args of the configuration given to startServer, and
                    \* the files that exist on disk

vars == <<procs, attempts, promises, serverProcess, serverPort, serverStarted,
          mainWindow, windows, nwindows, killer, app, platform,
          nenv, emitted, ipc, handlers, loading, renderer, nui, input>>

\* The part of the state the handlers of main.cjs and utils.cjs read and write.
State ==
    [procs |-> procs, attempts |-> attempts, promises |-> promises,
     serverProcess |-> serverProcess, serverPort |-> serverPort,
     serverStarted |-> serverStarted, mainWindow |-> mainWindow,
     windows |-> windows, nwindows |-> nwindows, killer |-> killer, app |-> app,
     ipc |-> ipc, handlers |-> handlers, loading |-> loading]

Commit(S) ==
    /\ procs' = S.procs
    /\ attempts' = S.attempts
    /\ promises' = S.promises
    /\ serverProcess' = S.serverProcess
    /\ serverPort' = S.serverPort
    /\ serverStarted' = S.serverStarted
    /\ mainWindow' = S.mainWindow
    /\ windows' = S.windows
    /\ nwindows' = S.nwindows
    /\ killer' = S.killer
    /\ app' = S.app
    /\ ipc' = S.ipc
    /\ handlers' = S.handlers
    /\ loading' = S.loading

Init ==
    /\ procs = <<>>
    /\ attempts = <<>>
    /\ promises = <<>>
    /\ serverProcess = 0
    /\ serverPort = Undefined
    /\ serverStarted = FALSE
    /\ mainWindow = 0
    /\ windows = {}
    /\ nwindows = 0
    /\ killer = [serverProcess |-> 0, isQuitting |-> FALSE,
                 call |-> "none", timer |-> "none", target |-> 0,
                 sigterm |-> 0, sigkill |-> 0,
                 deadAtCall |-> FALSE, exitSeen |-> "no"]
    /\ app = [ready |-> FALSE, state |-> "running"]
    /\ platform \in Platforms
    /\ nenv = 0
    /\ emitted = <<>>
    /\ ipc = <<>>
    /\ handlers = {}
    /\ loading = {}
    /\ renderer = RendererInit
    /\ nui = 0
    /\ input = DefaultInput

\* ------------------------------------------------------- GracefulKiller
\* ChildProcess.kill(signal): the signal is sent, and killed set, only while the
\* process has not been reaped; on an exited process it does nothing.
ChildKill(S, p, sig) ==
    IF S.procs[p].status = "running"
    THEN [S EXCEPT !.procs[p].killed = TRUE,
                   !.procs[p].signals = @ \cup {sig}]
    ELSE S

RECURSIVE AppQuit(_)

\* utils.cjs 19-22: the callback of kill(...).then
KillThen(S) == AppQuit([S EXCEPT !.killer.isQuitting = TRUE])

\* kill() that sends the forceful signal at once
GracefulKillForce(S, p) ==
    IF p = 0 \/ S.procs[p].killed
    THEN KillThen([S EXCEPT !.killer.call = "resolved"])
    ELSE ChildKill([S EXCEPT !.killer.call = "pending",
                             !.killer.timer = "pending",
                             !.killer.target = p,
                             !.killer.deadAtCall = S.procs[p].status # "running",
                             !.killer.sigkill = @ + 1], p, "SIGKILL")

\* utils.cjs 36-57, kill(processToKill), with the then-callback of its one caller
GracefulKill(S, p) ==
    IF p = 0 \/ S.procs[p].killed
    THEN KillThen([S EXCEPT !.killer.call = "resolved"])
    ELSE ChildKill([S EXCEPT !.killer.call = "pending",
                             !.killer.timer = "pending",
                             !.killer.target = p,
                             !.killer.deadAtCall = S.procs[p].status # "running",
                             !.killer.sigterm = @ + 1], p, "SIGTERM")

\* utils.cjs 12-24: the before-quit handler; the quit goes on unless the handler
\* called event.preventDefault()
BeforeQuit(S) ==
    IF S.killer.isQuitting THEN [S EXCEPT !.app.state = "exiting"]
    ELSE LET S1 == [S EXCEPT !.killer.isQuitting = TRUE]
             p == S1.killer.serverProcess
         IN  IF p # 0 /\ ~S1.procs[p].killed
             THEN GracefulKill(S1, p)
             ELSE [S1 EXCEPT !.app.state = "exiting"]

\* app.quit(): emits before-quit unless a quit is already under way
AppQuit(S) == IF S.app.state # "running" THEN S ELSE BeforeQuit(S)

\* utils.cjs 48-52: the exit listener kill() registered on its process
KillOnExit(S, p) ==
    IF S.killer.call = "none" \/ S.killer.target # p THEN S
    ELSE LET S1 == [S EXCEPT !.killer.timer = IF @ = "pending" THEN "cleared" ELSE @,
                             !.killer.exitSeen =
                                 IF S.killer.timer = "pending" THEN "intime" ELSE "late"]
         IN  IF S1.killer.call = "pending"
             THEN KillThen([S1 EXCEPT !.killer.call = "resolved"])
             ELSE S1

\* A timer callback that completes kill() right after the forceful signal
KillTimerFiredResolves(S) ==
    LET S1 == ChildKill([S EXCEPT !.killer.timer = "fired", !.killer.sigkill = @ + 1],
                        S.killer.target, "SIGKILL")
    IN  IF S1.killer.call = "pending"
        THEN KillThen([S1 EXCEPT !.killer.call = "resolved"])
        ELSE S1

\* utils.cjs 43-46: the callback of the kill timer
KillTimerFired(S) ==
    ChildKill([S EXCEPT !.killer.timer = "fired", !.killer.sigkill = @ + 1],
              S.killer.target, "SIGKILL")

\* ------------------------------------------------------------- main.cjs
\* mainWindow.webContents.send(channel, payload)
WebContentsSend(S, channel, payload) ==
    [S EXCEPT !.ipc = Append(@, [channel |-> channel, payload |-> payload,
                                 win |-> S.mainWindow])]

\* main.cjs 186-223: createWindow after `await startServer()`; the page of the
\* new window starts loading
CreateWindowResume(S, how, v) ==
    IF how = "resolved"
    THEN [S EXCEPT !.serverPort = v,
                   !.serverStarted = TRUE,
                   !.nwindows = @ + 1,
                   !.mainWindow = S.nwindows + 1,
                   !.windows = @ \cup {S.nwindows + 1},
                   !.loading = @ \cup {S.nwindows + 1}]
    ELSE AppQuit(S)

\* main.cjs 206-209: the did-finish-load handler of window w, which sends to
\* the window mainWindow names at that time (with mainWindow null the handler
\* throws before it sends)
OnDidFinishLoad(S, w) ==
    LET S1 == [S EXCEPT !.loading = @ \ {w}]
    IN  IF S.mainWindow # 0
        THEN WebContentsSend(S1, "backend-port", S.serverPort)
        ELSE S1

\* main.cjs 173-180
RegisterIPCHandlers(S) == [S EXCEPT !.handlers = @ \cup {"get-api-port"}]

\* A promise that can be settled again
RECURSIVE SettleAgain(_, _, _, _, _)
SettleAgain(S, k, how, v, reason) ==
    LET S1 == [S EXCEPT !.promises[k].state = how,
                        !.promises[k].value = v,
                        !.promises[k].reason = reason]
        cont == S.promises[k].cont
    IN  IF cont.kind = "chain"
        THEN SettleAgain(S1, cont.to, how, v, reason)
        ELSE CreateWindowResume(S1, how, v)

\* resolve(v) / reject(reason) on promise k and the continuations attached to it:
\* `.then(resolve).catch(reject)` of a restart (main.cjs 154) or createWindow.
RECURSIVE Settle(_, _, _, _, _)
Settle(S, k, how, v, reason) ==
    IF S.promises[k].state # "pending" THEN S
    ELSE LET S1 == [S EXCEPT !.promises[k].state = how,
                             !.promises[k].value = v,
                             !.promises[k].reason = reason]
             cont == S.promises[k].cont
         IN  IF cont.kind = "chain"
             THEN Settle(S1, cont.to, how, v, reason)
             ELSE CreateWindowResume(S1, how, v)

NewPromise(cont) ==
    [state |-> "pending", value |-> Undefined, reason |-> "", cont |-> cont]

NewProcess(cfg, plat, ok) ==
    [status |-> IF ok THEN "running" ELSE "failed",
     code |-> IF ok THEN Undefined ELSE SpawnErrno,
     killed |-> FALSE, signals |-> {},
     command |-> Command(cfg, plat),
     args |-> FullArgs(cfg)]

\* A startServer whose discovery buffer outlives the attempt: the new attempt
\* goes on with the text the previous one had collected
StartServerKeepsBuffer(S, cfg, cont, exists, ok, plat) ==
    LET k == Len(S.promises) + 1
        S0 == [S EXCEPT !.promises = Append(@, NewPromise(cont))]
    IN  IF S.serverStarted /\ Truthy(S.serverPort)
        THEN Settle(S0, k, "resolved", S.serverPort, "")
        ELSE IF MainScript(FullArgs(cfg)) # <<>> /\ ~exists
        THEN Settle(S0, k, "rejected", Undefined, "notfound")
        ELSE LET p == Len(S.procs) + 1
                 S1 == [S0 EXCEPT
                          !.procs = Append(@, NewProcess(cfg, plat, ok)),
                          !.serverProcess = p,
                          !.killer.serverProcess = p,
                          !.attempts = Append(@, [buffer |->
                                                      IF S.attempts = <<>> THEN <<>>
                                                      ELSE S.attempts[Len(S.attempts)].buffer,
                                                  portResolved |-> FALSE,
                                                  promise |-> k,
                                                  timer |-> "pending",
                                                  timedOut |-> FALSE,
                                                  port |-> Undefined,
                                                  nwindows |-> S.nwindows,
                                                  serverConfig |-> cfg])]
             IN  IF ok THEN S1 ELSE Settle(S1, k, "rejected", Undefined, "spawn")

\* main.cjs 44-170, startServer(cfg); nwindows records the windows created
\* before the attempt spawned its child. cont is what the caller attaches to the
\* returned promise, exists the answer of existsSync, ok whether the operating
\* system could create the process (its 'error' event comes before any other).
StartServer(S, cfg, cont, exists, ok, plat) ==
    LET k == Len(S.promises) + 1
        S0 == [S EXCEPT !.promises = Append(@, NewPromise(cont))]
    IN  IF S.serverStarted /\ Truthy(S.serverPort)
        THEN Settle(S0, k, "resolved", S.serverPort, "")
        ELSE IF MainScript(FullArgs(cfg)) # <<>> /\ ~exists
        THEN Settle(S0, k, "rejected", Undefined, "notfound")
        ELSE LET p == Len(S.procs) + 1
                 S1 == [S0 EXCEPT
                          !.procs = Append(@, NewProcess(cfg, plat, ok)),
                          !.serverProcess = p,
                          !.killer.serverProcess = p,
                          !.attempts = Append(@, [buffer |-> <<>>,
                                                  portResolved |-> FALSE,
                                                  promise |-> k,
                                                  timer |-> "pending",
                                                  timedOut |-> FALSE,
                                                  port |-> Undefined,
                                                  nwindows |-> S.nwindows,
                                                  serverConfig |-> cfg])]
             IN  IF ok THEN S1 ELSE Settle(S1, k, "rejected", Undefined, "spawn")

\* StartServer would call spawn in state S.
WouldSpawn(S) == ~(S.serverStarted /\ Truthy(S.serverPort))

\* A check that goes on after the first match
CheckPortAgain(S, p, data) ==
    LET buf == S.attempts[p].buffer \o data
        portMatch == PortMatch(buf)
    IN  IF portMatch # <<>>
        THEN Settle([S EXCEPT !.attempts[p].portResolved = TRUE,
                              !.attempts[p].buffer = <<>>,
                              !.attempts[p].port = ParseInt(portMatch),
                              !.serverPort = ParseInt(portMatch),
                              !.serverStarted = TRUE],
                    S.attempts[p].promise, "resolved", ParseInt(portMatch), "")
        ELSE [S EXCEPT !.attempts[p].buffer = buf]

\* A check that applies the pattern to the latest chunk alone
CheckPortInChunk(S, p, data) ==
    IF S.attempts[p].portResolved THEN S
    ELSE LET buf == S.attempts[p].buffer \o data
             portMatch == PortMatch(data)
         IN  IF portMatch # <<>>
             THEN Settle([S EXCEPT !.attempts[p].portResolved = TRUE,
                                   !.attempts[p].buffer = <<>>,
                                   !.attempts[p].port = ParseInt(portMatch),
                                   !.serverPort = ParseInt(portMatch),
                                   !.serverStarted = TRUE],
                         S.attempts[p].promise, "resolved", ParseInt(portMatch), "")
             ELSE [S EXCEPT !.attempts[p].buffer = buf]

\* main.cjs 107-122, checkPortInBuffer(data) of attempt p; port records what
\* the attempt discovered
CheckPortInBuffer(S, p, data) ==
    IF S.attempts[p].portResolved THEN S
    ELSE LET buf == S.attempts[p].buffer \o data
             portMatch == PortMatch(buf)
         IN  IF portMatch # <<>>
             THEN Settle([S EXCEPT !.attempts[p].portResolved = TRUE,
                                   !.attempts[p].buffer = <<>>,
                                   !.attempts[p].port = ParseInt(portMatch),
                                   !.serverPort = ParseInt(portMatch),
                                   !.serverStarted = TRUE],
                         S.attempts[p].promise, "resolved", ParseInt(portMatch), "")
             ELSE [S EXCEPT !.attempts[p].buffer = buf]

\* A close handler that restarts whatever the exit code
OnCloseAnyCode(S, p, exists, ok, plat) ==
    LET S1 == [S EXCEPT !.procs[p].status = "closed",
                        !.serverStarted = FALSE,
                        !.serverPort = Null,
                        !.killer.serverProcess = 0]
    IN  IF ~S.killer.isQuitting
        THEN StartServer(S1, S.attempts[p].serverConfig,
                         [kind |-> "chain", to |-> S.attempts[p].promise],
                         exists, ok, plat)
        ELSE S1

\* A close handler that restarts even while quitting
OnCloseIgnoresQuit(S, p, exists, ok, plat) ==
    LET S1 == [S EXCEPT !.procs[p].status = "closed",
                        !.serverStarted = FALSE,
                        !.serverPort = Null,
                        !.killer.serverProcess = 0]
    IN  IF S.procs[p].code # 0
        THEN StartServer(S1, S.attempts[p].serverConfig,
                         [kind |-> "chain", to |-> S.attempts[p].promise],
                         exists, ok, plat)
        ELSE S1

\* main.cjs 147-160, the close handler of process p
OnClose(S, p, exists, ok, plat) ==
    LET S1 == [S EXCEPT !.procs[p].status = "closed",
                        !.serverStarted = FALSE,
                        !.serverPort = Null,
                        !.killer.serverProcess = 0]
    IN  IF S.procs[p].code # 0 /\ ~S.killer.isQuitting
        THEN StartServer(S1, S.attempts[p].serverConfig,
                         [kind |-> "chain", to |-> S.attempts[p].promise],
                         exists, ok, plat)
        ELSE S1

\* main.cjs 163-168, the callback of the startup timer of attempt p; timedOut
\* records that it called reject
OnStartupTimeout(S, p) ==
    LET S1 == [S EXCEPT !.attempts[p].timer = "fired"]
    IN  IF ~S.serverStarted
        THEN Settle([S1 EXCEPT !.attempts[p].timedOut = TRUE],
                    S.attempts[p].promise, "rejected", Undefined, "timeout")
        ELSE S1

\* main.cjs 124-131 / 133-140: the data handler of a stream of process p
OnStreamData(S, p, data) ==
    CheckPortInBuffer(IF S.mainWindow # 0
                      THEN WebContentsSend(S, "backend-log", data)
                      ELSE S,
                      p, data)

WindowCont == [kind |-> "window", to |-> 0]

\* ---------------------------------------------------------------- actions
\* A quit that goes on shuts the application down within a few turns of the
\* event loop: exit and close events on their way are still handled, while
\* timers of seconds, further output and the user come too late.
Alive == app.state # "exited"
Running == app.state = "running"

\* The text written by each child while its attempt was undecided, with an
\* entry for every process the step spawned.
Written(S, p, data) ==
    [i \in 1..Len(S.procs) |->
        IF i > Len(emitted) THEN <<>>
        ELSE IF i = p /\ ~attempts[i].portResolved /\ attempts[i].timer = "pending"
             THEN emitted[i] \o data
             ELSE emitted[i]]

\* What a spawn costs: a failed one is an event of the environment.
Budget(ok) == IF ok THEN 0 ELSE 1

\* The step to S, of which cost events are the environment's.
Step(S, cost) ==
    /\ nenv + cost <= MaxEnv
    /\ Commit(S)
    /\ emitted' = Written(S, 0, <<>>)
    /\ platform' = platform
    /\ nenv' = nenv + cost
    /\ UNCHANGED <<renderer, nui, input>>

\* main.cjs 225-228: app.whenReady().then(...)
WhenReady ==
    /\ Running /\ ~app.ready
    /\ \E exists \in BOOLEAN, ok \in BOOLEAN :
         Step(StartServer(RegisterIPCHandlers([State EXCEPT !.app.ready = TRUE]),
                          defaultServerConfig, WindowCont, exists, ok, platform),
              IF WouldSpawn(State) THEN Budget(ok) ELSE 0)

\* main.cjs 230-237: the activate event (macOS: the dock icon is clicked)
Activate ==
    /\ Running /\ app.ready
    /\ platform = "darwin"
    /\ windows = {}
    /\ \E exists \in BOOLEAN, ok \in BOOLEAN :
         Step(StartServer(State, defaultServerConfig, WindowCont, exists, ok, platform),
              1 + (IF WouldSpawn(State) THEN Budget(ok) ELSE 0))

\* main.cjs 124-131 / 133-140: a chunk arrives on stdout or stderr of child p
OnData(p, data) ==
    /\ Running
    /\ procs[p].status \in {"running", "exited"}
    /\ nenv < MaxEnv
    /\ Commit(OnStreamData(State, p, data))
    /\ emitted' = Written(State, p, data)
    /\ nenv' = nenv + 1
    /\ UNCHANGED <<platform, renderer, nui, input>>

StdoutData == \E p \in 1..Len(procs), data \in Chunks : OnData(p, data)

StderrData == \E p \in 1..Len(procs), data \in Chunks : OnData(p, data)

\* A child ends with an exit code of its own, or by a signal (code null).
ExitCodes(p) ==
    IF "SIGKILL" \in procs[p].signals THEN {Null}
    ELSE IF procs[p].signals # {} THEN {0, Null}
    ELSE {0, 1}

\* Child p ends with code: the 'exit' event of the ChildProcess.
Exits(p, code) ==
    /\ procs[p].status = "running"
    /\ procs[p].signals = {} => Running
    /\ Step(KillOnExit([State EXCEPT !.procs[p].status = "exited",
                                     !.procs[p].code = code], p),
            IF procs[p].signals = {} THEN 1 ELSE 0)

ProcExit ==
    /\ Alive
    /\ \E p \in 1..Len(procs) : \E code \in ExitCodes(p) : Exits(p, code)

\* SIGKILL cannot be handled: a child that got it ends.
KilledExit ==
    /\ Alive
    /\ \E p \in 1..Len(procs) : "SIGKILL" \in procs[p].signals /\ Exits(p, Null)

\* The 'close' event: the child has ended (or failed to start) and its streams
\* are closed.
ProcClose ==
    /\ Alive
    /\ \E p \in 1..Len(procs), exists \in BOOLEAN, ok \in BOOLEAN :
         /\ procs[p].status \in {"exited", "failed"}
         /\ Step(OnClose(State, p, exists, ok, platform),
                 IF procs[p].code # 0 /\ ~killer.isQuitting THEN Budget(ok) ELSE 0)

StartupTimeout ==
    /\ Running
    /\ \E p \in 1..Len(attempts) :
         /\ attempts[p].timer = "pending"
         \* every attempt sets its timer to the same configured timeout
         /\ \A q \in 1..(p - 1) : attempts[q].timer = "fired"
         /\ Step(OnStartupTimeout(State, p), 0)

KillTimeout ==
    /\ Running
    /\ killer.timer = "pending"
    /\ Step(KillTimerFired(State), 0)

\* The user asks the application to quit (menu, Cmd+Q).
UserQuit ==
    /\ Running /\ app.ready
    /\ Step(AppQuit(State), 1)

\* main.cjs 220-222 and 239-243: the user closes a window
WindowClosed ==
    /\ Running
    /\ \E w \in windows :
         LET S1 == [State EXCEPT !.windows = @ \ {w}, !.loading = @ \ {w},
                                 !.mainWindow = 0]
         IN  Step(IF S1.windows = {} /\ platform # "darwin" THEN AppQuit(S1) ELSE S1, 1)

\* The page of window w has finished loading.
DidFinishLoad ==
    /\ Running
    /\ \E w \in loading : Step(OnDidFinishLoad(State, w), 0)

\* The shutdown of a quit that went on is complete.
AppExit ==
    /\ app.state = "exiting"
    /\ Step([State EXCEPT !.app.state = "exited"], 0)

Next ==
    \/ WhenReady
    \/ Activate
    \/ StdoutData
    \/ StderrData
    \/ ProcExit
    \/ ProcClose
    \/ StartupTimeout
    \/ KillTimeout
    \/ UserQuit
    \/ WindowClosed
    \/ DidFinishLoad
    \/ AppExit

Spec == Init /\ [][Next]_vars

\* ------------------------------------------- startServer with arguments
\* The values of Init as one record.
BootState ==
    [procs |-> <<>>, attempts |-> <<>>, promises |-> <<>>,
     serverProcess |-> 0, serverPort |-> Undefined, serverStarted |-> FALSE,
     mainWindow |-> 0, windows |-> {}, nwindows |-> 0,
     killer |-> [serverProcess |-> 0, isQuitting |-> FALSE,
                 call |-> "none", timer |-> "none", target |-> 0,
                 sigterm |-> 0, sigkill |-> 0,
                 deadAtCall |-> FALSE, exitSeen |-> "no"],
     app |-> [ready |-> FALSE, state |-> "running"],
     ipc |-> <<>>, handlers |-> {}, loading |-> {}]

\* Argument tokens a configuration may carry: bare script names, a name that
\* ends with a dot, a path with a separator, a word without a dot.
ArgTokens ==
    {<<"a", ".", "j", "s">>, <<"b", ".", "p", "y">>, <<"a", ".">>,
     <<"d", "/", "a", ".", "j", "s">>, <<"x">>}

ArgLists == UNION {[1..n -> ArgTokens] : n \in 0..MaxArgs}

\* The configuration with the given args merged over the defaults (main.cjs 52).
ConfigWith(args) == [defaultServerConfig EXCEPT !.args = args]

\* The script files startServer may look for.
ScriptFiles ==
    {Join(BasePath(defaultServerConfig), <<"a", ".", "j", "s">>),
     Join(BasePath(defaultServerConfig), <<"b", ".", "p", "y">>),
     <<"d", "/", "a", ".", "j", "s">>}

\* fs.existsSync(path)
ExistsSync(path) == path \in input.disk

ArgsInit ==
    /\ procs = BootState.procs
    /\ attempts = BootState.attempts
    /\ promises = BootState.promises
    /\ serverProcess = BootState.serverProcess
    /\ serverPort = BootState.serverPort
    /\ serverStarted = BootState.serverStarted
    /\ mainWindow = BootState.mainWindow
    /\ windows = BootState.windows
    /\ nwindows = BootState.nwindows
    /\ killer = BootState.killer
    /\ app = BootState.app
    /\ ipc = BootState.ipc
    /\ handlers = BootState.handlers
    /\ loading = BootState.loading
    /\ platform \in Platforms
    /\ nenv = 0
    /\ emitted = <<>>
    /\ renderer = RendererInit
    /\ nui = 0
    /\ input \in [args : ArgLists, disk : SUBSET ScriptFiles,
                  text : {DefaultInput.text}, rest : {DefaultInput.rest}]

\* startServer(config) is called with the args of input.
StartWithArgs ==
    /\ promises = <<>>
    /\ \E ok \in BOOLEAN :
         LET cfg == ConfigWith(input.args)
         IN  Step(StartServer([State EXCEPT !.app.ready = TRUE], cfg, WindowCont,
                              ExistsSync(MainScript(FullArgs(cfg))), ok, platform),
                  Budget(ok))

ArgsNext == StartWithArgs

ArgsSpec == ArgsInit /\ [][ArgsNext]_vars

\* ------------------------------------------- the output cut into chunks
\* Texts a child may write: an announcement of port 30, an announcement of
\* port 3 followed by a slash, an announcement after other output, and a text
\* without a port.
Texts ==
    {ChunkUrl \o <<"3", "0">>, ChunkFull \o <<"/">>, ChunkZero \o ChunkFull, ChunkUrl}

\* text cut after the positions of cuts, given in ascending order.
RECURSIVE SplitAt(_, _, _)
SplitAt(text, from, cuts) ==
    IF cuts = <<>> THEN <<SubSeq(text, from, Len(text))>>
    ELSE <<SubSeq(text, from, Head(cuts))>> \o SplitAt(text, Head(cuts) + 1, Tail(cuts))

\* The ascending sequence of the members of the set of positions c.
RECURSIVE Ascending(_)
Ascending(c) ==
    IF c = {} THEN <<>>
    ELSE LET m == CHOOSE x \in c : \A y \in c : x <= y
         IN  <<m>> \o Ascending(c \ {m})

\* Every way the streams may deliver text in at most MaxChunks chunks.
Splits(text) ==
    {SplitAt(text, 1, Ascending(c)) :
        c \in {d \in SUBSET (1..(Len(text) - 1)) : Cardinality(d) < MaxChunks}}

ChunkInit ==
    /\ procs = BootState.procs
    /\ attempts = BootState.attempts
    /\ promises = BootState.promises
    /\ serverProcess = BootState.serverProcess
    /\ serverPort = BootState.serverPort
    /\ serverStarted = BootState.serverStarted
    /\ mainWindow = BootState.mainWindow
    /\ windows = BootState.windows
    /\ nwindows = BootState.nwindows
    /\ killer = BootState.killer
    /\ app = BootState.app
    /\ ipc = BootState.ipc
    /\ handlers = BootState.handlers
    /\ loading = BootState.loading
    /\ platform \in Platforms
    /\ nenv = 0
    /\ emitted = <<>>
    /\ renderer = RendererInit
    /\ nui = 0
    /\ \E t \in Texts :
         input \in {[DefaultInput EXCEPT !.text = t, !.rest = s] : s \in Splits(t)}

\* main.cjs 124-131: the next chunk of the text arrives on stdout of the child.
ChunkWrite ==
    /\ procs # <<>> /\ procs[1].status = "running"
    /\ input.rest # <<>>
    /\ Commit(OnStreamData(State, 1, Head(input.rest)))
    /\ emitted' = Written(State, 1, Head(input.rest))
    /\ input' = [input EXCEPT !.rest = Tail(@)]
    /\ UNCHANGED <<platform, nenv, renderer, nui>>

ChunkNext == WhenReady \/ ChunkWrite

ChunkSpec == ChunkInit /\ [][ChunkNext]_vars

\* ------------------------------------------------- the bridge of a window
\* The main process after WhenReady, the chunk ChunkFull on stdout and
\* DidFinishLoad: the backend runs, its port is known, the first window shows
\* its page.
LoadedState(plat) ==
    LET S1 == StartServer(RegisterIPCHandlers([BootState EXCEPT !.app.ready = TRUE]),
                          defaultServerConfig, WindowCont, TRUE, TRUE, plat)
        S2 == OnStreamData(S1, 1, ChunkFull)
    IN  OnDidFinishLoad(S2, S2.mainWindow)

BridgeInit ==
    /\ platform \in Platforms
    /\ procs = LoadedState(platform).procs
    /\ attempts = LoadedState(platform).attempts
    /\ promises = LoadedState(platform).promises
    /\ serverProcess = LoadedState(platform).serverProcess
    /\ serverPort = LoadedState(platform).serverPort
    /\ serverStarted = LoadedState(platform).serverStarted
    /\ mainWindow = LoadedState(platform).mainWindow
    /\ windows = LoadedState(platform).windows
    /\ nwindows = LoadedState(platform).nwindows
    /\ killer = LoadedState(platform).killer
    /\ app = LoadedState(platform).app
    /\ ipc = LoadedState(platform).ipc
    /\ handlers = LoadedState(platform).handlers
    /\ loading = LoadedState(platform).loading
    /\ nenv = 1
    /\ emitted = <<ChunkFull>>
    /\ renderer = RendererInit
    /\ nui = 0
    /\ input = DefaultInput

\* The channel names the page may try, and the listeners it may pass.
UiChannels == {"backend-log", "backend-port", "get-api-port", "evil"}
UiListeners == {"f", "g"}

MainVars == <<procs, attempts, promises, serverProcess, serverPort, serverStarted,
              mainWindow, windows, nwindows, killer, app, platform, nenv, emitted,
              ipc, handlers, loading, input>>

\* A call of the page that leaves the renderer as R.
UiCall(R) ==
    /\ renderer' = R
    /\ nui' = nui + 1
    /\ UNCHANGED MainVars

\* window.api.receive(channel, listener)
ApiReceive ==
    /\ nui < MaxUi
    /\ \E channel \in UiChannels, listener \in UiListeners :
         UiCall(Receive(renderer, channel, listener))

\* window.api.invoke(channel)
ApiInvoke ==
    /\ nui < MaxUi
    /\ \E channel \in UiChannels : UiCall(Invoke(renderer, State, channel))

\* window.api.getApiPort()
ApiGetApiPort ==
    /\ nui < MaxUi
    /\ UiCall(GetApiPort(renderer, State))

\* The page calls a disposer that receive returned to it.
Dispose ==
    /\ nui < MaxUi
    /\ \E sub \in 1..renderer.nsubs :
         UiCall(RemoveListener(renderer, renderer.subs[sub].channel, sub))

\* The renderer handles the next message of the main process.
IpcDeliver ==
    /\ renderer.delivered < Len(ipc)
    /\ renderer' = Emit(renderer, ipc[renderer.delivered + 1], renderer.delivered + 1)
    /\ UNCHANGED <<MainVars, nui>>

\* Output of the backend while the window is open.
BridgeStdout == Len(ipc) < MaxIpc /\ StdoutData

BridgeStderr == Len(ipc) < MaxIpc /\ StderrData

BridgeNext ==
    \/ BridgeStdout
    \/ BridgeStderr
    \/ ApiReceive
    \/ ApiInvoke
    \/ ApiGetApiPort
    \/ Dispose
    \/ IpcDeliver

BridgeSpec == BridgeInit /\ [][BridgeNext]_vars

\* Timers fire, pending exit and close events are delivered, a child that got
\* SIGKILL ends, and a shutdown under way completes.
FairSpec ==
    /\ Spec
    /\ WF_vars(StartupTimeout)
    /\ WF_vars(KillTimeout)
    /\ WF_vars(KilledExit)
    /\ WF_vars(ProcClose)
    /\ WF_vars(AppExit)

\* ----------------------------------------------------------------- claims
\* Attempt p is Starting: its child runs, no port was discovered, and the
\* start() call that launched it is pending.
Starting(p) ==
    /\ procs[p].status = "running"
    /\ ~attempts[p].portResolved
    /\ promises[attempts[p].promise].state = "pending"

\* Process p is closed by this step.
Closes(p) == procs[p].status \in {"exited", "failed"} /\ procs'[p].status = "closed"

\* A restart was chained to the start() call of attempt p.
Restarted(p) ==
    \E k \in 1..Len(promises) :
        promises[k].cont = [kind |-> "chain", to |-> attempts[p].promise]

\* C1: a start() call made while an earlier call is pending (the supervisor is
\* Starting, no port discovered yet) spawns no second child process.
C1_NoSecondSpawn ==
    [][(Activate /\ ~serverStarted /\ \E p \in 1..Len(procs) : Starting(p))
          => Len(procs') = Len(procs)]_vars

\* C2: a start() call served by one launch attempt resolves, with a positive
\* port, exactly if the port pattern matches in the output emitted before the
\* startup timeout, and is otherwise rejected with the timeout error.
C2_ResolvesIffMatch ==
    \A p \in 1..Len(attempts) :
        LET call == promises[attempts[p].promise]
            match == PortMatch(emitted[p]) # <<>>
        IN  (call.cont.kind = "window" /\ procs[p].code # SpawnErrno /\ ~Restarted(p)) =>
              /\ call.state = "resolved" => (match /\ call.value > 0)
              /\ attempts[p].timer = "fired" =>
                    IF match THEN call.state = "resolved"
                    ELSE call.state = "rejected" /\ call.reason = "timeout"

\* C3: a close with a non-zero code while not quitting launches exactly one new
\* attempt, with the configuration of the closed one, on behalf of the same
\* start() call; a close with code zero launches none.
C3_RestartOnCrash ==
    [][\A p \in 1..Len(procs) : Closes(p) =>
          IF procs[p].code # 0 /\ ~killer.isQuitting
          THEN /\ Len(procs') = Len(procs) + 1
               /\ attempts'[Len(procs')].serverConfig = attempts[p].serverConfig
               /\ promises'[attempts'[Len(procs')].promise].cont =
                      [kind |-> "chain", to |-> attempts[p].promise]
          ELSE Len(procs') = Len(procs)]_vars

C3_Witness ==
    \E p \in 1..Len(procs), q \in 1..Len(procs) :
        /\ procs[p].status = "closed" /\ procs[p].code # 0 /\ Restarted(p)
        /\ procs[q].status = "closed" /\ procs[q].code = 0 /\ ~Restarted(q)

\* C4: the first quit request with a live child owned marks the supervisor
\* quitting, defers the exit and invokes the terminator on the child, and the
\* application exit goes on only after that termination has completed.
C4_QuitAfterTermination ==
    [][/\ (/\ ~killer.isQuitting /\ killer'.isQuitting
           /\ killer.serverProcess # 0
           /\ ~procs[killer.serverProcess].killed)
          => /\ app'.state = "running"
             /\ killer'.call = "pending"
             /\ killer'.target = killer.serverProcess
       /\ (app'.state # "running" /\ killer'.call # "none")
          => killer'.call = "resolved"]_vars

\* C5: a quit request that arrives while the termination of the child is in
\* progress is a no-op: no signal, no second termination, no change of the
\* application exit.
C5_SecondQuitNoOp ==
    [][(UserQuit /\ killer.call = "pending" /\ procs[killer.target].status = "running")
          => UNCHANGED <<procs, killer, app>>]_vars

\* C6: a close while quitting, whatever the exit code, starts no restart,
\* clears port and started flag, and releases the process handle.
C6_CloseWhileQuitting ==
    [][\A p \in 1..Len(procs) : (Closes(p) /\ killer.isQuitting) =>
          /\ Len(procs') = Len(procs)
          /\ ~serverStarted'
          /\ serverPort' = Null
          /\ killer'.serverProcess = 0]_vars

C6_Witness ==
    \E p \in 1..Len(procs) :
        /\ procs[p].status = "closed" /\ procs[p].code = Null /\ ~Restarted(p)
        /\ killer.isQuitting /\ killer.serverProcess = 0 /\ serverPort = Null

\* C7: kill() of a process that exits with the kill timer still armed never
\* issues SIGKILL; once the timer has fired, exactly one SIGKILL was issued.
C7_ForceOnlyAfterGrace ==
    /\ killer.exitSeen = "intime" => killer.sigkill = 0
    /\ killer.timer = "fired" => killer.sigkill = 1
    /\ killer.timer # "fired" => killer.sigkill = 0

C7_Witness ==
    /\ killer.exitSeen = "intime" /\ killer.call = "resolved"
    /\ killer.timer = "cleared" /\ killer.sigterm = 1
    /\ "SIGTERM" \in procs[killer.target].signals

\* C8 as stated: once the kill timer of a process that was alive at the call
\* has fired, kill() has completed.
C8_ResolvesAtTimeout ==
    (killer.timer = "fired" /\ ~killer.deadAtCall) => killer.call = "resolved"

\* C8 amended: when the kill timer fires first, kill() issues SIGKILL and stays
\* pending; it completes only when the process reports its exit.
C8_ResolvesOnExitOnly ==
    /\ killer.timer = "fired" => killer.sigkill = 1
    /\ killer.call = "resolved" <=> killer.exitSeen # "no"
    /\ (killer.timer = "fired" /\ killer.exitSeen = "no") => killer.call = "pending"

C8_Witness ==
    /\ killer.timer = "fired" /\ killer.call = "pending" /\ ~killer.deadAtCall
    /\ procs[killer.target].status = "running"
    /\ "SIGKILL" \in procs[killer.target].signals

\* C9: kill() of a process that has already ended returns at once: the call is
\* complete, no timer was started and no signal was sent.
C9_DeadHandleReturns ==
    (killer.deadAtCall /\ procs[killer.target].code # SpawnErrno) =>
        killer.call = "resolved" /\ killer.timer = "none" /\ killer.sigterm = 0

\* C10: every kill() call on a process that was started completes (unless the
\* application ends first), whatever the child does.
C10_KillCompletes ==
    (killer.call = "pending" /\ procs[killer.target].code # SpawnErrno)
        ~> (killer.call = "resolved" \/ app.state # "running")

\* C11: the startup timer of an attempt that has discovered a port rejects no
\* start() call and starts no quit, whatever happened since the discovery.
C11_NoRejectAfterDiscovery ==
    [][\A p \in 1..Len(attempts) :
          (/\ attempts[p].portResolved
           /\ attempts[p].timer = "pending"
           /\ attempts'[p].timer = "fired")
          => promises' = promises /\ app' = app /\ killer' = killer]_vars

\* The child crashed after the discovery and the timer found no server started.
C11_Witness ==
    \E p \in 1..Len(attempts) :
        /\ attempts[p].portResolved /\ attempts[p].timedOut
        /\ procs[p].status = "closed" /\ Restarted(p)
        /\ promises[attempts[p].promise].state = "resolved"

\* The call op(channel) of the page was blocked by this step: it reached neither
\* ipcRenderer.on nor ipcRenderer.invoke, logged a warning and returned nothing.
Blocked(op, channel) ==
    /\ renderer'.listeners = renderer.listeners
    /\ renderer'.invoked = renderer.invoked
    /\ renderer'.warnings = Append(renderer.warnings, [op |-> op, channel |-> channel])
    /\ renderer'.result = UndefinedResult

\* C12: receive or invoke on a channel outside its allow-list registers no
\* listener and reaches no handler, and logs a warning instead of a result.
C12_BlockedChannels ==
    [][/\ \A channel \in UiChannels \ validReceiveChannels, listener \in UiListeners :
            UiCall(Receive(renderer, channel, listener)) => Blocked("receive", channel)
       /\ \A channel \in UiChannels \ validInvokeChannels :
            UiCall(Invoke(renderer, State, channel)) => Blocked("invoke", channel)]_vars

C12_Witness ==
    /\ \E i \in 1..Len(renderer.warnings) :
          renderer.warnings[i] = [op |-> "receive", channel |-> "evil"]
    /\ \E i \in 1..Len(renderer.warnings) :
          renderer.warnings[i] = [op |-> "invoke", channel |-> "backend-log"]
    /\ renderer.listeners = RendererInit.listeners
    /\ renderer.invoked = <<>>
    /\ renderer.result = UndefinedResult

\* C13: the pattern is applied to everything the child has written so far, so
\* an announcement split over chunks is discovered by the chunk that completes
\* its first occurrence in the concatenation, at the latest.
C13_SplitDetected ==
    \A p \in 1..Len(attempts) :
        /\ PortMatch(emitted[p]) # <<>> => attempts[p].portResolved
        /\ ~attempts[p].portResolved => PortMatch(attempts[p].buffer) = <<>>
        /\ (~attempts[p].portResolved /\ attempts[p].timer = "pending")
              => attempts[p].buffer = emitted[p]

\* The announcement came as "http://localhost:" and "0/".
C13_Witness ==
    \E p \in 1..Len(attempts) :
        /\ emitted[p] = ChunkUrl \o ChunkZero
        /\ PortMatch(ChunkUrl) = <<>> /\ PortMatch(ChunkZero) = <<>>
        /\ attempts[p].portResolved /\ serverStarted

\* C14: a chunk of an attempt that has already discovered a port resolves
\* nothing and leaves the recorded port, the started flag and the attempt alone.
C14_OneResolution ==
    [][\A p \in 1..Len(procs), data \in Chunks :
          (OnData(p, data) /\ attempts[p].portResolved)
          => /\ attempts' = attempts
             /\ promises' = promises
             /\ serverPort' = serverPort
             /\ serverStarted' = serverStarted
             /\ nwindows' = nwindows]_vars

\* The only child wrote a second announcement after its port 3 was discovered.
C14_Witness ==
    /\ Len(procs) = 1 /\ attempts[1].portResolved
    /\ serverPort = 3 /\ promises[attempts[1].promise].value = 3
    /\ nwindows = 1
    /\ \E i \in 1..Len(ipc) :
          ipc[i].channel = "backend-log" /\ ipc[i].payload = ChunkUrl \o <<"3">>

\* The supervisor is Running: the child it holds runs and has announced its
\* port, which is the recorded one.
SupervisorRunning ==
    /\ serverStarted /\ serverPort >= 0
    /\ serverProcess # 0
    /\ procs[serverProcess].status = "running"
    /\ attempts[serverProcess].portResolved

\* C15: start() while Running spawns no process and leaves the process handle,
\* the port and the started flag as they are; the caller gets the current port.
C15_StartWhileRunning ==
    [][(Activate /\ SupervisorRunning)
          => /\ Len(procs') = Len(procs)
             /\ serverProcess' = serverProcess
             /\ serverPort' = serverPort
             /\ serverStarted' = serverStarted
             /\ promises'[Len(promises')].state = "resolved"
             /\ promises'[Len(promises')].value = serverPort]_vars

\* The backend-port messages sent and the port discoveries made so far.
PortEvents == {i \in 1..Len(ipc) : ipc[i].channel = "backend-port"}
Discoveries == {p \in 1..Len(attempts) : attempts[p].portResolved}

\* start() was called once, and every spawn succeeded.
OneStartCall ==
    /\ Cardinality({k \in 1..Len(promises) : promises[k].cont.kind = "window"}) = 1
    /\ \A p \in 1..Len(procs) : procs[p].code # SpawnErrno

\* C16: with the window of the one start() call open and its page loaded,
\* there has been one backend-port message for each discovery, and none
\* without one.
C16_PortEventPerDiscovery ==
    (Running /\ OneStartCall /\ windows = {mainWindow} /\ loading = {}) =>
        Cardinality(PortEvents) = Cardinality(Discoveries)

\* The backend instances that run (their close has not been handled) and have
\* announced a port.
InstancesUp ==
    {p \in 1..Len(procs) :
        procs[p].status \in {"running", "exited"} /\ attempts[p].portResolved}

\* C17: get-api-port answers with the port a running instance announced, and
\* with no port (undefined, or the null the close handler stores) when no
\* instance runs.
C17_GetApiPort ==
    ("get-api-port" \in handlers /\ \A p \in 1..Len(procs) : procs[p].code # SpawnErrno) =>
        IF InstancesUp # {}
        THEN \E p \in InstancesUp : GetApiPortHandler(State) = attempts[p].port
        ELSE GetApiPortHandler(State) \in {Undefined, Null}

\* C18: every chunk a child writes is handed to the log relay as it is,
\* whether or not a port has been discovered.
C18_EveryChunkRelayed ==
    [][\A p \in 1..Len(procs), data \in Chunks :
          OnData(p, data)
          => /\ Len(ipc') = Len(ipc) + 1
             /\ ipc'[Len(ipc')].channel = "backend-log"
             /\ ipc'[Len(ipc')].payload = data]_vars

\* Subscription n of receive is still attached.
Attached(n) == LastListener(renderer, renderer.subs[n].channel, n) # 0

\* The messages of channel among those numbered from + 1 to to.
Sent(channel, from, to) == {k \in (from + 1)..to : ipc[k].channel = channel}

\* C19: a subscriber gets the messages of its channel as they are and in the
\* order the main process sent them, only those handled after it subscribed,
\* and, while it stays attached, all of those.
C19_LiveOrderedRelay ==
    \A n \in 1..renderer.nsubs :
        LET got == renderer.received[n]
            sub == renderer.subs[n]
        IN  /\ \A i \in 1..Len(got) :
                  /\ got[i].idx \in Sent(sub.channel, sub.since, renderer.delivered)
                  /\ got[i].payload = ipc[got[i].idx].payload
            /\ \A i \in 1..Len(got), j \in 1..Len(got) :
                  i < j => got[i].idx < got[j].idx
            /\ Attached(n) =>
                  {got[i].idx : i \in 1..Len(got)}
                      = Sent(sub.channel, sub.since, renderer.delivered)

\* One subscriber got two log chunks in order; another, who subscribed after
\* the first chunk was handled, got the second chunk only.
C19_Witness ==
    \E n \in 1..renderer.nsubs, m \in 1..renderer.nsubs :
        /\ renderer.subs[n].channel = "backend-log"
        /\ renderer.subs[m].channel = "backend-log"
        /\ Len(renderer.received[n]) = 2
        /\ renderer.received[n][1].idx < renderer.received[n][2].idx
        /\ Len(renderer.received[m]) = 1
        /\ renderer.received[m][1] = renderer.received[n][2]
        /\ renderer.subs[m].since >= renderer.received[n][1].idx

\* The listeners of ipcRenderer other than the one of subscription n.
OtherListeners(R, n) ==
    LET F[i \in 0..Len(R.listeners)] ==
            IF i = 0 THEN <<>>
            ELSE IF R.listeners[i].sub # n THEN Append(F[i - 1], R.listeners[i])
            ELSE F[i - 1]
    IN  F[Len(R.listeners)]

\* C20: the disposer of subscription n detaches the listener of that
\* subscription and no other (on any channel, of the same callback or not),
\* and a further call of it changes nothing.
C20_DisposerDetachesOne ==
    [][\A n \in 1..renderer.nsubs :
          (nui < MaxUi /\ UiCall(RemoveListener(renderer, renderer.subs[n].channel, n)))
          => /\ renderer'.listeners = OtherListeners(renderer, n)
             /\ renderer'.received = renderer.received
             /\ ~Attached(n) => renderer'.listeners = renderer.listeners]_vars

\* Two subscriptions of the same callback to backend-log; the first one was
\* disposed, and a chunk handled afterwards reached only the second.
C20_Witness ==
    \E n \in 1..renderer.nsubs, m \in 1..renderer.nsubs :
        /\ n # m
        /\ renderer.subs[n].channel = "backend-log"
        /\ renderer.subs[m].channel = "backend-log"
        /\ ~Attached(n) /\ Attached(m)
        /\ renderer.subs[n].listener = renderer.subs[m].listener
        /\ renderer.received[n] = <<>>
        /\ Len(renderer.received[m]) = 1
        /\ renderer.subs[n].since < renderer.received[m][1].idx

\* C21: when some resolved argument with a script extension does not exist on
\* disk, start() is rejected with the not-found error and spawns nothing.
C21_MissingScriptFails ==
    promises # <<>> =>
        LET full == FullArgs(ConfigWith(input.args))
        IN  (\E i \in 1..Len(full) : HasScriptExt(full[i]) /\ ~ExistsSync(full[i]))
            => /\ procs = <<>>
               /\ promises[1].state = "rejected"
               /\ promises[1].reason = "notfound"

\* Every start() call but the first came from a re-activation: a window had
\* been created before it.
Reactivations ==
    \A p \in 2..Len(attempts) :
        promises[attempts[p].promise].cont.kind = "window" => attempts[p].nwindows > 0

\* C22: once the first start() call has resolved, a quit of the application is
\* started only by the user (a quit request, or closing the last window).
C22_OnlyFirstStartupFatal ==
    [][(/\ Len(promises) > 0 /\ promises[1].state = "resolved"
        /\ Reactivations
        /\ app.state = "running" /\ ~killer.isQuitting
        /\ (killer'.isQuitting \/ app'.state # "running"))
          => (UserQuit \/ WindowClosed)]_vars

\* C23: the recorded port, whenever it is known, is a positive integer.
C23_KnownPortPositive ==
    serverPort \notin {Null, Undefined} => serverPort > 0

\* C24: an attempt whose startup timed out, or whose spawn failed, does not
\* discover a port afterwards.
C24_OutcomesExclusive ==
    [][\A p \in 1..Len(attempts) :
          (/\ attempts[p].timedOut \/ procs[p].code = SpawnErrno
           /\ ~attempts[p].portResolved)
          => ~attempts'[p].portResolved]_vars

\* C25: the startup timer of an attempt whose port has been resolved does not
\* run its callback's timeout branch (the log line and the reject call).
C25_TimerCancelledOnDiscovery ==
    [][\A p \in 1..Len(attempts) :
          (Reactivations /\ attempts[p].portResolved /\ attempts[p].timer = "pending")
          => ~attempts'[p].timedOut]_vars

\* C26: while the startup timer of an attempt runs, its discovery buffer holds
\* the undecided output of its own child and nothing else, and a discovery is a
\* match in that child's own output.
C26_FreshBuffer ==
    \A p \in 1..Len(attempts) :
        attempts[p].timer = "pending" =>
            IF attempts[p].portResolved
            THEN attempts[p].buffer = <<>> /\ PortMatch(emitted[p]) # <<>>
            ELSE attempts[p].buffer = emitted[p] /\ PortMatch(emitted[p]) = <<>>

\* The first child wrote "http://localhost:" and crashed; the child of the
\* restart wrote "0/" and its attempt is still undecided.
C26_Witness ==
    /\ Len(attempts) = 2
    /\ emitted[1] = ChunkUrl /\ procs[1].status = "closed" /\ Restarted(1)
    /\ emitted[2] = ChunkZero /\ Starting(2)
    /\ PortMatch(emitted[1] \o emitted[2]) # <<>>

\* C27: the startup timer of an attempt whose child has crashed and been
\* replaced by a restart rejects no start() call and starts no quit.
C27_TimerOfCurrentAttempt ==
    [][\A p \in 1..Len(attempts) :
          (/\ Reactivations
           /\ procs[p].status = "closed" /\ Restarted(p)
           /\ ~attempts[p].portResolved
           /\ attempts[p].timer = "pending"
           /\ attempts'[p].timer = "fired")
          => promises' = promises /\ app' = app /\ killer' = killer]_vars

\* C28: the child receives each argument token that has no path separator and
\* contains a dot as the path of that name under the working directory, and
\* every other token as it was given.
C28_BareFileRewritten ==
    procs # <<>> =>
        \A i \in 1..Len(input.args) :
            LET arg == input.args[i]
                bare == /\ \A j \in 1..Len(arg) : ~IsSep(arg[j])
                        /\ \E j \in 1..Len(arg) : arg[j] = "."
            IN  procs[1].args[i] =
                    IF bare THEN Join(BasePath(ConfigWith(input.args)), arg) ELSE arg

\* C29: once the quit of the application goes on (the application exits), no
\* child process that was spawned is still running; stated for one start() call
\* whose spawns all succeeded.
C29_NoChildAtExit ==
    (OneStartCall /\ app.state \in {"exiting", "exited"}) =>
        \A p \in 1..Len(procs) : procs[p].status # "running"

\* C30: after the quit of the application was requested, the application
\* exits; stated for one start() call whose spawns all succeeded.
C30_QuitCompletes ==
    (killer.isQuitting /\ OneStartCall) ~> app.state = "exited"

\* C31: at most one child process that was spawned is running.
C31_OneChildAlive ==
    Cardinality({p \in 1..Len(procs) : procs[p].status = "running"}) <= 1

\* C32: the close of a child leaves the killer's handle alone when the handle
\* refers to a different child that is running, and leaves the recorded port and
\* the started flag alone when they are what that running child announced
\* (stated for the close of a child that had been started, outside a quit).
C32_CloseClearsOwnInstance ==
    [][\A p \in 1..Len(procs) :
          LET q == killer.serverProcess
          IN  (/\ Closes(p) /\ q # 0 /\ q # p /\ procs[q].status = "running"
               /\ procs[p].code # SpawnErrno /\ ~killer.isQuitting)
              => /\ killer'.serverProcess = q
                 /\ (serverStarted /\ attempts[q].portResolved
                                   /\ serverPort = attempts[q].port)
                        => (serverStarted' /\ serverPort' = serverPort)]_vars

\* The k-th start() call has been made and is not settled.
PendingCall(k) == k <= Len(promises) /\ promises[k].state = "pending"

\* C33: every start() call is settled in the end, resolved or rejected, unless
\* the application stops running first.
C33_StartSettles ==
    \A k \in 1..(MaxEnv + 1) :
        PendingCall(k) ~> (~PendingCall(k) \/ app.state # "running")

\* C34: when the whole text has been delivered, in whatever chunks, start() is
\* resolved with the port of the first announcement in the text, and is still
\* pending when the text has none.
C34_ChunkingIrrelevant ==
    (/\ promises # <<>> /\ procs # <<>> /\ procs[1].code # SpawnErrno
     /\ input.text # <<>> /\ input.rest = <<>>)
        => LET whole == PortMatch(input.text)
           IN  IF whole = <<>> THEN promises[1].state = "pending"
               ELSE /\ promises[1].state = "resolved"
                    /\ promises[1].value = ParseInt(whole)

====
